---- MODULE Spec2Model ----
(***************************************************************************)
(* A model of phylo-tools: findtrunk.py (the trunk counter and CEdges) and *)
(* trunktraitevolution.py (the trunk trait walker).                        *)
(*                                                                         *)
(* A tree is a record [parent, length]: both are sequences indexed by the  *)
(* node (1..n).  Node 1 is the seed (root) node, parent[1] = None; every   *)
(* other node n has parent[n] < n, and the children of a node, in stored   *)
(* order, are its children by increasing index.  length[n] is the length   *)
(* of node n's edge, the edge leading into n; as in dendropy, every node   *)
(* owns an edge, the seed node's edge having no tail node.                 *)
(***************************************************************************)
EXTENDS Integers, Sequences, FiniteSets, TLC

\* ---------------------------------------------------------------- bounds
\* Largest number of nodes of the generated input trees of findtrunk / CEdges.
MaxNodes == 4
\* Edge lengths of the generated trees are drawn from 0..MaxLen.
MaxLen == 1
\* Number of count_edges calls made on one CEdges instance.
MaxCalls == 10
\* Largest number of nodes of the input trees of the trait walker.
WalkMaxNodes == 3

\* The walker's input: the values of the discrete trait, the edge lengths, the
\* "trunk" annotations and the thresholds (--trunk-threshold, 0 by default).
TraitValues == {"A", "B"}
Durations == {1, 2}
TrunkCounts == {0, 1}
Thresholds == {0, 1}

\* Python's None (no node, no annotation).
None == 0

\* ------------------------------------------------------------ input trees
Nodes(t) == 1..Len(t.parent)

ParentArrays(n) ==
    { p \in [1..n -> 0..n] : p[1] = None /\ \A i \in 2..n : p[i] \in 1..(i - 1) }

LengthArrays(n) ==
    { l \in [1..n -> 0..MaxLen] : l[1] = 0 }

TreesOfSize(n) ==
    { [parent |-> p, length |-> l] : p \in ParentArrays(n), l \in LengthArrays(n) }

\* The balanced four-leaf tree ((A:1,B:1):1,(C:1,D:1):1);
\* nodes: 1 root, 2 = (A,B), 3 = A, 4 = B, 5 = (C,D), 6 = C, 7 = D.
BalancedTree ==
    [parent |-> <<0, 1, 2, 2, 1, 5, 5>>, length |-> <<0, 1, 1, 1, 1, 1, 1>>]

Trees == UNION { TreesOfSize(n) : n \in 1..MaxNodes } \cup {BalancedTree}

\* The tree of the unit tests, ((raccoon,bear),((sea_lion,seal),((monkey,cat),
\* weasel)),dog); its edge lengths, which count_edges does not read, are put to 1.
TestTree ==
    [parent |-> <<0, 1, 2, 2, 1, 5, 6, 6, 5, 9, 10, 10, 9, 1>>,
     length |-> <<0, 1, 1, 1, 1, 1, 1, 1, 1, 1, 1, 1, 1, 1>>]

\* The trees passed to count_edges: every generated topology, and the test tree.
EdgeTrees ==
    { t \in Trees : \A i \in 2..Len(t.parent) : t.length[i] = 1 } \cup {TestTree}

\* ------------------------------------------------- tree navigation (dendropy)
parent_node(t, n) == t.parent[n]

RECURSIVE ChildrenFrom(_, _, _)
ChildrenFrom(t, n, i) ==
    IF i > Len(t.parent) THEN <<>>
    ELSE IF t.parent[i] = n THEN <<i>> \o ChildrenFrom(t, n, i + 1)
    ELSE ChildrenFrom(t, n, i + 1)

\* node.child_nodes(): the children in stored order.
child_nodes(t, n) == ChildrenFrom(t, n, 1)

is_leaf(t, n) == child_nodes(t, n) = <<>>

\* Breadth-first from the seed node: a queue of nodes still to yield.
RECURSIVE LevelOrderFrom(_, _)
LevelOrderFrom(t, queue) ==
    IF queue = <<>> THEN <<>>
    ELSE <<Head(queue)>> \o LevelOrderFrom(t, Tail(queue) \o child_nodes(t, Head(queue)))

levelorder_node_iter(t) == LevelOrderFrom(t, <<1>>)

\* The edges are yielded as the edge of each node in level order (an edge is
\* named by the node it leads into); the seed node's edge is among them.
levelorder_edge_iter(t) == levelorder_node_iter(t)

\* Depth-first, parent first, children in stored order: a stack of nodes.
RECURSIVE PreOrderFrom(_, _)
PreOrderFrom(t, stack) ==
    IF stack = <<>> THEN <<>>
    ELSE <<Head(stack)>> \o PreOrderFrom(t, child_nodes(t, Head(stack)) \o Tail(stack))

preorder_node_iter(t) == PreOrderFrom(t, <<1>>)

RECURSIVE FilterLeaves(_, _)
FilterLeaves(t, s) ==
    IF s = <<>> THEN <<>>
    ELSE IF is_leaf(t, Head(s)) THEN <<Head(s)>> \o FilterLeaves(t, Tail(s))
    ELSE FilterLeaves(t, Tail(s))

leaf_node_iter(t) == FilterLeaves(t, preorder_node_iter(t))

\* Position (1-based) of x in the sequence s.
IndexOf(s, x) == CHOOSE i \in 1..Len(s) : s[i] = x

\* tree.max_distance_from_root() leaves on every node its root_distance: 0 on
\* the seed node, else the edge length plus the parent's root_distance.
RECURSIVE RootDistanceOf(_, _)
RootDistanceOf(t, n) ==
    IF t.parent[n] = None THEN 0
    ELSE t.length[n] + RootDistanceOf(t, t.parent[n])

\* -------------------------------------------------------------- the state
VARIABLES
    tree,           \* the tree read from the input file (findtrunk, CEdges)
    pc,             \* position of the running program
    node_label,     \* findtrunk: node.label, by node
    edge_label,     \* findtrunk: edge.label, by the node the edge leads into
    edgedict,       \* findtrunk: edge label -> count
    edgelist,       \* findtrunk: the (edge label, 1) pairs appended so far
    root_distance,  \* findtrunk: node.root_distance, by node
    leaves,         \* findtrunk: the leaves leaf_node_iter() has yet to yield
    backwardnode,   \* findtrunk: the node of the backward walk
    trunk,          \* findtrunk: the "trunk" annotation, by edge
    edge_number,    \* CEdges.edge_number
    calls,          \* CEdges: count_edges calls made on the instance
    feature,        \* walker: the trait annotation, by node
    threshold,      \* walker: args.trunk_threshold
    todo,           \* walker: the nodes preorder_node_iter() has yet to yield
    kids,           \* walker: the children node.child_nodes() has yet to yield
    parent_annotation, \* walker: the running context: trait value,
    parent_id,         \*   id
    parent_height,     \*   and age
    feature_permanence, \* walker: (vfrom, vto) -> accumulated edge length
    sc,             \* walker: the switch count
    rows,           \* walker: the rows written to the _switches.csv file
    visited,        \* walker: number of "visited" annotations, by node
    summary         \* walker: the rows written to the _summary.csv file

\* The state of findtrunk and CEdges that the walker leaves alone.
findVars == <<edge_label, edgedict, edgelist, root_distance, leaves, backwardnode,
              edge_number, calls>>

\* The state of the walker that findtrunk and CEdges leave alone.
walkVars == <<feature, threshold, todo, kids, parent_annotation, parent_id,
              parent_height, feature_permanence, sc, rows, visited, summary>>

vars == <<tree, pc, node_label, trunk, findVars, walkVars>>

\* The walker has not run.
WalkIdle ==
    /\ feature = <<>>
    /\ threshold = 0
    /\ todo = <<>>
    /\ kids = <<>>
    /\ parent_annotation = None
    /\ parent_id = None
    /\ parent_height = None
    /\ feature_permanence = <<>>
    /\ sc = 0
    /\ rows = <<>>
    /\ visited = <<>>
    /\ summary = {}

\* ------------------------------------------------------- CEdges.count_edges
RECURSIVE CountLoop(_, _)
CountLoop(n, edges) ==
    IF edges = <<>> THEN n ELSE CountLoop(n + 1, Tail(edges))

\* count_edges with a fault: the counter is not reset before the loop.
count_edges_accumulating(self_edge_number, t) ==
    CountLoop(self_edge_number, levelorder_edge_iter(t))

\* The value count_edges leaves in self.edge_number.
count_edges(self_edge_number, t) ==
    CountLoop(0, levelorder_edge_iter(t))

\* ------------------------------------------------------------ findtrunk.main
InitTrunk ==
    /\ tree \in Trees
    /\ pc = "label"
    /\ node_label = <<>>
    /\ edge_label = <<>>
    /\ edgedict = <<>>
    /\ edgelist = <<>>
    /\ root_distance = <<>>
    /\ leaves = <<>>
    /\ backwardnode = None
    /\ trunk = <<>>
    /\ edge_number = 0
    /\ calls = 0
    /\ WalkIdle

\* Adds UIDs to each node and each edge in level order; every edge label gets
\* a zero entry in edgedict.
AssignIdentifiers ==
    /\ pc = "label"
    /\ node_label' = [n \in Nodes(tree) |-> IndexOf(levelorder_node_iter(tree), n) - 1]
    /\ edge_label' = [n \in Nodes(tree) |-> IndexOf(levelorder_edge_iter(tree), n) - 1]
    /\ edgedict' = [i \in 0..(Len(levelorder_edge_iter(tree)) - 1) |-> 0]
    /\ pc' = "distances"
    /\ UNCHANGED <<tree, edgelist, root_distance, leaves, backwardnode, trunk,
                   edge_number, calls>>
    /\ UNCHANGED walkVars

\* tree.max_distance_from_root(), then the leaf iteration starts.
ComputeRootDistances ==
    /\ pc = "distances"
    /\ root_distance' = [n \in Nodes(tree) |-> RootDistanceOf(tree, n)]
    /\ leaves' = leaf_node_iter(tree)
    /\ pc' = "leaf"
    /\ UNCHANGED <<tree, node_label, edge_label, edgedict, edgelist, backwardnode,
                   trunk, edge_number, calls>>
    /\ UNCHANGED walkVars

\* WalkStart with a fault: the backward walk starts at the leaf itself.
WalkStartAtLeaf(t, leaf) == leaf

\* backwardnode = leaf.parent_node
WalkStart(t, leaf) == parent_node(t, leaf)

\* for leaf in tree.leaf_node_iter(): the next leaf.
LeafIter ==
    /\ pc = "leaf"
    /\ leaves # <<>>
    /\ backwardnode' = WalkStart(tree, Head(leaves))
    /\ leaves' = Tail(leaves)
    /\ pc' = "while"
    /\ UNCHANGED <<tree, node_label, edge_label, edgedict, edgelist, root_distance,
                   trunk, edge_number, calls>>
    /\ UNCHANGED walkVars

\* The leaf iteration is exhausted.
LeafIterEnd ==
    /\ pc = "leaf"
    /\ leaves = <<>>
    /\ pc' = "accumulate"
    /\ UNCHANGED <<tree, node_label, edge_label, edgedict, edgelist, root_distance,
                   leaves, backwardnode, trunk, edge_number, calls>>
    /\ UNCHANGED walkVars

\* while backwardnode.root_distance > 0
WhileCond(n) == root_distance[n] > 0

\* One iteration of the while loop.
WhileStep ==
    /\ pc = "while"
    /\ backwardnode # None
    /\ WhileCond(backwardnode)
    /\ edgelist' = Append(edgelist, <<edge_label[backwardnode], 1>>)
    /\ backwardnode' = parent_node(tree, backwardnode)
    /\ UNCHANGED <<tree, pc, node_label, edge_label, edgedict, root_distance, leaves,
                   trunk, edge_number, calls>>
    /\ UNCHANGED walkVars

\* The while condition is false: on to the next leaf.
WhileExit ==
    /\ pc = "while"
    /\ backwardnode # None
    /\ ~WhileCond(backwardnode)
    /\ pc' = "leaf"
    /\ UNCHANGED <<tree, node_label, edge_label, edgedict, edgelist, root_distance,
                   leaves, backwardnode, trunk, edge_number, calls>>
    /\ UNCHANGED walkVars

\* backwardnode is None: reading None.root_distance raises AttributeError and
\* main ends with the exception.
WhileError ==
    /\ pc = "while"
    /\ backwardnode = None
    /\ pc' = "error"
    /\ UNCHANGED <<tree, node_label, edge_label, edgedict, edgelist, root_distance,
                   leaves, backwardnode, trunk, edge_number, calls>>
    /\ UNCHANGED walkVars

\* for pair in edgelist: edgedict[pair[0]] += pair[1]
RECURSIVE AddPairs(_, _)
AddPairs(dict, pairs) ==
    IF pairs = <<>> THEN dict
    ELSE AddPairs([dict EXCEPT ![Head(pairs)[1]] = @ + Head(pairs)[2]], Tail(pairs))

Accumulate ==
    /\ pc = "accumulate"
    /\ edgedict' = AddPairs(edgedict, edgelist)
    /\ pc' = "annotate"
    /\ UNCHANGED <<tree, node_label, edge_label, edgelist, root_distance, leaves,
                   backwardnode, trunk, edge_number, calls>>
    /\ UNCHANGED walkVars

\* Every edge gets the annotation "trunk" = edgedict[edge.label].
ApplyTrunkAnnotation ==
    /\ pc = "annotate"
    /\ trunk' = [n \in Nodes(tree) |-> edgedict[edge_label[n]]]
    /\ pc' = "count"
    /\ UNCHANGED <<tree, node_label, edge_label, edgedict, edgelist, root_distance,
                   leaves, backwardnode, edge_number, calls>>
    /\ UNCHANGED walkVars

\* inst_edges = CEdges(); inst_edges.count_edges(tree); the tree is written.
CountAndSave ==
    /\ pc = "count"
    /\ edge_number' = count_edges(0, tree)
    /\ pc' = "done"
    /\ UNCHANGED <<tree, node_label, edge_label, edgedict, edgelist, root_distance,
                   leaves, backwardnode, trunk, calls>>
    /\ UNCHANGED walkVars

NextTrunk ==
    \/ AssignIdentifiers
    \/ ComputeRootDistances
    \/ LeafIter
    \/ LeafIterEnd
    \/ WhileStep
    \/ WhileExit
    \/ WhileError
    \/ Accumulate
    \/ ApplyTrunkAnnotation
    \/ CountAndSave

SpecTrunk == InitTrunk /\ [][NextTrunk]_vars

\* --------------------------------------------------- the CEdges unit under test
\* No tree has been passed to the instance yet.
NoTree == [parent |-> <<>>, length |-> <<>>]

\* tmp_cedge_inst = findtrunk.CEdges(): edge_number = int().
InitEdges ==
    /\ tree = NoTree
    /\ pc = "test"
    /\ node_label = <<>>
    /\ edge_label = <<>>
    /\ edgedict = <<>>
    /\ edgelist = <<>>
    /\ root_distance = <<>>
    /\ leaves = <<>>
    /\ backwardnode = None
    /\ trunk = <<>>
    /\ edge_number = 0
    /\ calls = 0
    /\ WalkIdle

\* tmp_cedge_inst.count_edges(t), on the same instance as the calls before.
CountEdgesCall ==
    /\ pc = "test"
    /\ calls < MaxCalls
    /\ \E t \in EdgeTrees :
         /\ tree' = t
         /\ edge_number' = count_edges(edge_number, t)
    /\ calls' = calls + 1
    /\ UNCHANGED <<pc, node_label, edge_label, edgedict, edgelist, root_distance,
                   leaves, backwardnode, trunk>>
    /\ UNCHANGED walkVars

NextEdges == CountEdgesCall

SpecEdges == InitEdges /\ [][NextEdges]_vars

\* ------------------------------------------------ trunktraitevolution.main
\* The input of the walker: a tree whose nodes carry a trait value, a "height",
\* a label (or none) and a "trunk" count.  Whether an annotation is present at
\* all is part of the input too; every annotation of a node is read by at most
\* one step of the walk (a node is read as a parent only if it was not
\* processed as a child), so its absence is drawn at the step that reads it.
WalkTreesOfSize(n) ==
    { [parent |-> p, length |-> l] :
        p \in ParentArrays(n),
        l \in { d \in [1..n -> {0} \cup Durations] :
                  d[1] = 0 /\ \A i \in 2..n : d[i] \in Durations } }

WalkTrees == UNION { WalkTreesOfSize(n) : n \in 1..WalkMaxNodes }

\* The "height" annotation of node n: an opaque value, one per node.
HeightOf(n) == <<"height", n>>

\* if child.label: None (and the empty string) are false.
Truthy(label) == label # None

InitWalk ==
    /\ tree \in WalkTrees
    /\ feature \in [Nodes(tree) -> TraitValues]
    /\ trunk \in { f \in [Nodes(tree) -> TrunkCounts] : f[1] = 0 }
    /\ node_label \in { l \in [Nodes(tree) -> {None} \cup Nodes(tree)] :
                          l[1] = 1 /\ \A n \in Nodes(tree) : l[n] \in {n, None} }
    /\ threshold \in Thresholds
    /\ pc = "walk"
    /\ todo = preorder_node_iter(tree)
    /\ kids = <<>>
    /\ parent_annotation = None
    /\ parent_id = None
    /\ parent_height = None
    /\ feature_permanence = <<>>
    /\ sc = 0
    /\ rows = <<>>
    /\ visited = [n \in Nodes(tree) |-> 0]
    /\ summary = {}
    /\ edge_label = <<>>
    /\ edgedict = <<>>
    /\ edgelist = <<>>
    /\ root_distance = <<>>
    /\ leaves = <<>>
    /\ backwardnode = None
    /\ edge_number = 0
    /\ calls = 0

\* 'visited' in node.annotations.values_as_dict().keys()
IsVisited(n) == visited[n] > 0

\* WalkerChildren with a fault: every descendant of the node, in pre-order.
WalkerDescendants(t, n) == Tail(PreOrderFrom(t, <<n>>))

\* for child in node.child_nodes()
WalkerChildren(t, n) == child_nodes(t, n)

\* The node the pre-order iteration yields was visited before: it is skipped,
\* and its children are not looked at.
NodeSkip ==
    /\ pc = "walk"
    /\ todo # <<>>
    /\ IsVisited(Head(todo))
    /\ todo' = Tail(todo)
    /\ UNCHANGED <<tree, pc, node_label, trunk, findVars, feature, threshold, kids,
                   parent_annotation, parent_id, parent_height, feature_permanence,
                   sc, rows, visited, summary>>

\* An unvisited node: its trait, label and height seed the running context.
NodeEnter ==
    /\ pc = "walk"
    /\ todo # <<>>
    /\ ~IsVisited(Head(todo))
    /\ parent_annotation' = feature[Head(todo)]
    /\ parent_id' = node_label[Head(todo)]
    /\ parent_height' = HeightOf(Head(todo))
    /\ kids' = WalkerChildren(tree, Head(todo))
    /\ todo' = Tail(todo)
    /\ pc' = "children"
    /\ UNCHANGED <<tree, node_label, trunk, findVars, feature, threshold,
                   feature_permanence, sc, rows, visited, summary>>

\* An unvisited node without the trait or the "height" annotation: KeyError.
NodeKeyError ==
    /\ pc = "walk"
    /\ todo # <<>>
    /\ ~IsVisited(Head(todo))
    /\ pc' = "error"
    /\ UNCHANGED <<tree, node_label, trunk, findVars, walkVars>>

\* The pre-order iteration is exhausted; the switches file is closed.
WalkEnd ==
    /\ pc = "walk"
    /\ todo = <<>>
    /\ pc' = "summary"
    /\ UNCHANGED <<tree, node_label, trunk, findVars, walkVars>>

\* int(child.annotations.values_as_dict()['trunk']) > args.trunk_threshold
AboveThreshold(child) == trunk[child] > threshold

\* The child has no label, or its trunk count is not above the threshold.
ChildSkip ==
    /\ pc = "children"
    /\ kids # <<>>
    /\ ~Truthy(node_label[Head(kids)]) \/ ~AboveThreshold(Head(kids))
    /\ kids' = Tail(kids)
    /\ UNCHANGED <<tree, pc, node_label, trunk, findVars, feature, threshold, todo,
                   parent_annotation, parent_id, parent_height, feature_permanence,
                   sc, rows, visited, summary>>

\* A labelled child without the "trunk" annotation: KeyError.
ChildTrunkKeyError ==
    /\ pc = "children"
    /\ kids # <<>>
    /\ Truthy(node_label[Head(kids)])
    /\ pc' = "error"
    /\ UNCHANGED <<tree, node_label, trunk, findVars, walkVars>>

\* PermanenceAdd with a fault: the length goes to the bucket of the child's value.
PermanenceAddByChild(fp, vfrom, vto, len) ==
    IF <<vto, vto>> \in DOMAIN fp
    THEN [fp EXCEPT ![<<vto, vto>>] = @ + len]
    ELSE [k \in DOMAIN fp \cup {<<vto, vto>>} |->
            IF k = <<vto, vto>> THEN len ELSE fp[k]]

\* feature_permanence[parent_annotation][child_annotation] is set to, or
\* increased by, child.edge.length.
PermanenceAdd(fp, vfrom, vto, len) ==
    IF <<vfrom, vto>> \in DOMAIN fp
    THEN [fp EXCEPT ![<<vfrom, vto>>] = @ + len]
    ELSE [k \in DOMAIN fp \cup {<<vfrom, vto>>} |->
            IF k = <<vfrom, vto>> THEN len ELSE fp[k]]

\* c = 1 when the values differ, else 0.
SwitchFlag(vfrom, vto) == IF vfrom # vto THEN 1 ELSE 0

\* ReseededContext with a fault: the context stays the one the node seeded.
KeptContext(child) ==
    [annotation |-> parent_annotation, id |-> parent_id, height |-> parent_height]

\* Re-assigning internal values: the running context after a processed child
\* is the child's trait value, label and height.
ReseededContext(child) ==
    [annotation |-> feature[child], id |-> node_label[child], height |-> HeightOf(child)]

\* A labelled child above the threshold: the permanence and the switch count
\* are updated, the row is written, the context moves to the child and the
\* child is marked visited.
ChildProcess ==
    /\ pc = "children"
    /\ kids # <<>>
    /\ Truthy(node_label[Head(kids)])
    /\ AboveThreshold(Head(kids))
    /\ LET child == Head(kids)
           child_annotation == feature[child]
       IN  /\ feature_permanence' = PermanenceAdd(feature_permanence, parent_annotation,
                                                  child_annotation, tree.length[child])
           /\ sc' = sc + SwitchFlag(parent_annotation, child_annotation)
           /\ rows' = Append(rows, [from_id |-> parent_id,
                                    to_id |-> node_label[child],
                                    f_age |-> parent_height,
                                    t_age |-> HeightOf(child),
                                    duration |-> tree.length[child],
                                    vfrom |-> parent_annotation,
                                    vto |-> child_annotation,
                                    c |-> SwitchFlag(parent_annotation, child_annotation)])
           /\ parent_annotation' = ReseededContext(child).annotation
           /\ parent_id' = ReseededContext(child).id
           /\ parent_height' = ReseededContext(child).height
           /\ visited' = [visited EXCEPT ![child] = @ + 1]
    /\ kids' = Tail(kids)
    /\ UNCHANGED <<tree, pc, node_label, trunk, findVars, feature, threshold, todo,
                   summary>>

\* A labelled child above the threshold without the trait annotation: KeyError
\* before anything is updated.
ChildFeatureKeyError ==
    /\ pc = "children"
    /\ kids # <<>>
    /\ Truthy(node_label[Head(kids)])
    /\ AboveThreshold(Head(kids))
    /\ pc' = "error"
    /\ UNCHANGED <<tree, node_label, trunk, findVars, walkVars>>

\* A labelled child above the threshold without the "height" annotation:
\* KeyError while the row is built, after the permanence and the switch count
\* were updated.
ChildHeightKeyError ==
    /\ pc = "children"
    /\ kids # <<>>
    /\ Truthy(node_label[Head(kids)])
    /\ AboveThreshold(Head(kids))
    /\ LET child == Head(kids)
           child_annotation == feature[child]
       IN  /\ feature_permanence' = PermanenceAdd(feature_permanence, parent_annotation,
                                                  child_annotation, tree.length[child])
           /\ sc' = sc + SwitchFlag(parent_annotation, child_annotation)
    /\ pc' = "error"
    /\ UNCHANGED <<tree, node_label, trunk, findVars, feature, threshold, todo, kids,
                   parent_annotation, parent_id, parent_height, rows, visited, summary>>

\* The children of the node are exhausted.
ChildrenEnd ==
    /\ pc = "children"
    /\ kids = <<>>
    /\ pc' = "walk"
    /\ UNCHANGED <<tree, node_label, trunk, findVars, walkVars>>

\* The rows of the summary file: the same-value pairs of feature_permanence.
SummaryRows(fp) ==
    { [vfrom |-> k[1], vto |-> k[2], duration |-> fp[k]] :
        k \in { d \in DOMAIN fp : d[1] = d[2] } }

WriteSummary ==
    /\ pc = "summary"
    /\ summary' = SummaryRows(feature_permanence)
    /\ pc' = "done"
    /\ UNCHANGED <<tree, node_label, trunk, findVars, feature, threshold, todo, kids,
                   parent_annotation, parent_id, parent_height, feature_permanence,
                   sc, rows, visited>>

NextWalk ==
    \/ NodeSkip
    \/ NodeEnter
    \/ NodeKeyError
    \/ WalkEnd
    \/ ChildSkip
    \/ ChildTrunkKeyError
    \/ ChildProcess
    \/ ChildFeatureKeyError
    \/ ChildHeightKeyError
    \/ ChildrenEnd
    \/ WriteSummary

SpecWalk == InitWalk /\ [][NextWalk]_vars

\* ------------------------------------------------------------------ claims
\* The nodes whose edge lies on the path from node n up to the root: n and its
\* ancestors, the root left out (its edge has no tail and lies on no path).
RECURSIVE PathEdges(_, _)
PathEdges(t, n) ==
    IF t.parent[n] = None THEN {} ELSE {n} \cup PathEdges(t, t.parent[n])

LeafSet(t) == { n \in Nodes(t) : is_leaf(t, n) }

\* The leaves whose leaf-to-root path includes the edge into node n.
LeavesThrough(t, n) == { l \in LeafSet(t) : n \in PathEdges(t, l) }

\* Number of edges between node n and the root.
Depth(t, n) == Cardinality(PathEdges(t, n))

RECURSIVE SumOver(_, _)
SumOver(f, S) ==
    IF S = {} THEN 0
    ELSE LET x == CHOOSE y \in S : TRUE IN f[x] + SumOver(f, S \ {x})

Counted == pc \in {"annotate", "count", "done"}

\* C1 (as claimed): once the trunk annotation is applied, the "trunk" value of
\* every edge is the number of leaves whose leaf-to-root path includes the edge,
\* the edge into a leaf included.
C1_TrunkIsLeafPathCount ==
    pc = "done" =>
        \A n \in Nodes(tree) : trunk[n] = Cardinality(LeavesThrough(tree, n))

\* C2 (as claimed): on the balanced tree the count is 0 on the four leaf edges
\* and 0 on the two internal edges.
C2_BalancedAllZero ==
    (tree = BalancedTree /\ Counted) =>
        /\ \A n \in {3, 4, 6, 7} : edgedict[edge_label[n]] = 0
        /\ \A n \in {2, 5} : edgedict[edge_label[n]] = 0

\* C2 (amended): on the balanced tree the count is 0 on the four leaf edges and
\* 2 on each of the two internal edges (each carries the two leaves below it).
C2_BalancedCounts ==
    (tree = BalancedTree /\ Counted) =>
        /\ \A n \in {3, 4, 6, 7} : edgedict[edge_label[n]] = 0
        /\ \A n \in {2, 5} : edgedict[edge_label[n]] = 2

C2_Witness ==
    /\ tree = BalancedTree
    /\ pc = "done"
    /\ Len(edgelist) = 4

\* C3 (as claimed): after the counting, every edge that lies on at least one
\* leaf-to-root path has a count of at least 1.
C3_PathEdgesCounted ==
    Counted =>
        \A n \in Nodes(tree) :
            LeavesThrough(tree, n) # {} => edgedict[edge_label[n]] >= 1

\* C4 (as claimed): with edge lengths >= 0, the counts summed over all edges
\* equal the depth, in edges, of the leaf's parent summed over all leaves.
C4_TotalCountIsTotalDepth ==
    Counted =>
        SumOver(edgedict, DOMAIN edgedict)
            = SumOver([l \in LeafSet(tree) |-> Depth(tree, parent_node(tree, l))],
                      LeafSet(tree))

\* C5 (as claimed): on a single-node tree the counting raises no error and the
\* count map it yields is empty.
C5_SingleNodeCompletes ==
    Len(tree.parent) = 1 =>
        /\ pc # "error"
        /\ Counted => DOMAIN edgedict = {}

\* The edges (by the node they lead into) yielded by the level-order iteration.
EdgesYielded(t) ==
    { levelorder_edge_iter(t)[i] : i \in 1..Len(levelorder_edge_iter(t)) }

\* C10: after count_edges(tree), edge_number is the number of edges the
\* level-order edge iteration of that tree yields, whatever the calls before
\* left in it, and it is greater than 0 when the tree has edges.
C10_CountEdgesResets ==
    calls > 0 =>
        /\ edge_number = Cardinality(EdgesYielded(tree))
        /\ EdgesYielded(tree) # {} => edge_number > 0

\* A later call, on the test tree, on an instance that has counted before.
C10_Witness ==
    /\ calls >= 2
    /\ tree = TestTree
    /\ edge_number = 14

\* The indices of the transition-log rows that satisfy P.
RowsWhere(P(_)) == { i \in 1..Len(rows) : P(rows[i]) }

DurationAt(i) == rows[i].duration

\* Sum of the durations of the rows with the indices in S.
RECURSIVE DurationSum(_)
DurationSum(S) ==
    IF S = {} THEN 0
    ELSE LET i == CHOOSE j \in S : TRUE IN DurationAt(i) + DurationSum(S \ {i})

\* C6 (as claimed): at the end of the walk, every parent->child edge whose
\* trunk count is above the threshold (the child carrying a label, its to_id)
\* has a transition record, whatever its depth, also when the parent was itself
\* processed as a child.
C6_EveryTrunkEdgeLogged ==
    pc = "done" =>
        \A n \in Nodes(tree) \ {1} :
            (AboveThreshold(n) /\ Truthy(node_label[n])) =>
                \E i \in 1..Len(rows) : rows[i].to_id = node_label[n]

\* C7: at the end of a walk the switch count is the number of transition-log
\* rows with switch flag 1, and for each trait value v the summary holds a row
\* (v, v) exactly when some transition-log row goes from v to v, its duration
\* being the sum of the durations of those rows.
C7_SwitchCountAndPermanence ==
    pc = "done" =>
        /\ sc = Cardinality(RowsWhere(LAMBDA r : r.c = 1))
        /\ \A v \in TraitValues :
              LET same == RowsWhere(LAMBDA r : r.vfrom = v /\ r.vto = v)
                  out == { r \in summary : r.vfrom = v \/ r.vto = v }
              IN  IF same = {} THEN out = {}
                  ELSE out = {[vfrom |-> v, vto |-> v, duration |-> DurationSum(same)]}
        /\ \A r \in summary : r.vfrom = r.vto

\* A finished walk with a switch row and a same-value row, the summary holding
\* the duration of the latter.
C7_Witness ==
    /\ pc = "done"
    /\ sc = 1
    /\ Len(rows) = 2
    /\ \E r \in summary : r.duration = 2

\* C8 (as claimed): when the walk ends in an error, no output has been
\* produced: no transition-log row and no summary row was written.
C8_NoOutputOnError ==
    pc = "error" => (rows = <<>> /\ summary = {})

\* C9: no node is marked visited more than once, no node is the to_id of more
\* than one transition-log row, and (short of an error, which interrupts the
\* step that writes a row) every row has contributed once: the switch count is
\* at most the number of rows with switch flag 1 and the permanence buckets
\* hold together the durations of the rows, each counted once.
C9_VisitedAtMostOnce ==
    /\ \A n \in Nodes(tree) :
          /\ visited[n] <= 1
          /\ Cardinality(RowsWhere(LAMBDA r : r.to_id = n)) <= 1
    /\ pc # "error" =>
          /\ sc <= Cardinality(RowsWhere(LAMBDA r : r.c = 1))
          /\ SumOver(feature_permanence, DOMAIN feature_permanence)
                = DurationSum(1..Len(rows))

\* A finished walk in which a node that was processed as a child, and has
\* children of its own, was met again by the pre-order iteration.
C9_Witness ==
    /\ pc = "done"
    /\ \E n \in Nodes(tree) : visited[n] = 1 /\ ~is_leaf(tree, n)
    /\ Len(rows) >= 1

\* The children of the parent of node n that come before n in stored order and
\* were processed (each is the to_id of a transition-log row).
ProcessedBefore(n) ==
    { s \in Nodes(tree) :
        /\ s < n
        /\ tree.parent[s] = tree.parent[n]
        /\ RowsWhere(LAMBDA r : r.to_id = s) # {} }

\* The largest element of a non-empty set of nodes.
Last(S) == CHOOSE x \in S : \A y \in S : y <= x

\* The row whose to_id is node n.
RowTo(n) == rows[CHOOSE i \in 1..Len(rows) : rows[i].to_id = n]

\* C11: every transition-log row carries, as from_id / from_age / from_value,
\* the id, age and value of the parent when no sibling before its child was
\* processed, and else the to_id / to_age / to_value of the row of the nearest
\* processed sibling before it; siblings that were not processed in between
\* change nothing.
C11_ContextReseeded ==
    \A i \in 1..Len(rows) :
        LET child == rows[i].to_id
            before == ProcessedBefore(child)
        IN  IF before = {}
            THEN /\ rows[i].from_id = node_label[tree.parent[child]]
                 /\ rows[i].f_age = HeightOf(tree.parent[child])
                 /\ rows[i].vfrom = feature[tree.parent[child]]
            ELSE /\ rows[i].from_id = RowTo(Last(before)).to_id
                 /\ rows[i].f_age = RowTo(Last(before)).t_age
                 /\ rows[i].vfrom = RowTo(Last(before)).vto

\* Two children of the root were processed; the second row starts from the
\* first child, whose trait value is not the root's.
C11_Witness ==
    /\ Len(rows) = 2
    /\ rows[1].from_id = 1
    /\ rows[2].from_id = rows[1].to_id
    /\ rows[2].vfrom # feature[1]

\* The leaves whose parent is node n or lies below it.
LeavesWalkingThrough(t, n) ==
    { l \in LeafSet(t) : n \in PathEdges(t, parent_node(t, l)) }

\* C12 (as claimed): with edge lengths >= 0, the backward walk of a leaf ends
\* only at the root, and the counts hold, for every edge into a non-root node,
\* one increment per leaf whose parent is that node or lies below it, also
\* when edges next to the root have length 0.
C12_WalkStopsAtRootOnly ==
    /\ (pc = "leaf" /\ backwardnode # None) => parent_node(tree, backwardnode) = None
    /\ Counted =>
          \A n \in Nodes(tree) \ {1} :
              edgedict[edge_label[n]] = Cardinality(LeavesWalkingThrough(tree, n))

====
